---------------------------- MODULE Spec2Model ----------------------------
(***************************************************************************)
(* arm_var_f32 (CMSIS DSP, StatisticsFunctions/arm_var_f32.c): variance of *)
(* a float32 vector by the two-pass method.                                *)
(*                                                                         *)
(* The model has two layers.                                               *)
(*  - float32_t arithmetic is modelled by a binary floating-point format   *)
(*    of the IEEE-754 shape (round to nearest, ties to even; gradual       *)
(*    underflow; overflow to infinity; NaN) with a reduced precision and   *)
(*    exponent range, so that TLC can enumerate it.  A finite value is the *)
(*    integer count of units of the smallest subnormal; 1.0 is             *)
(*    2^FracBits units.  The sign of zero is not modelled: the kernel's    *)
(*    result is a quotient of a sum of squares started at +0.0f and a      *)
(*    divisor >= 1, which is never -0.                                     *)
(*    Every C operation is rounded on its own (no contraction of          *)
(*    fValue * fValue and the addition into one fused multiply-add).       *)
(*  - the function is modelled statement by statement: one action per C    *)
(*    statement (or loop test), for both build configurations of the       *)
(*    #if !defined(ARM_MATH_CM0_FAMILY) && !defined(ARM_MATH_CM3_FAMILY)   *)
(*    selector.  Memory is an array of float cells addressed by pointers.  *)
(***************************************************************************)
EXTENDS Integers, Sequences, FiniteSets

(***************************************************************************)
(* Bounds of the model.                                                    *)
(***************************************************************************)
\* significand bits of the modelled format (float32 has 24)
Precision == 3
\* 1.0 is 2^FracBits units of the smallest subnormal (float32: 2^149)
FracBits == 2
\* number of binades above the lowest one (float32: 253)
Binades == 4
\* largest blockSize a caller passes, and the size of each input buffer
MaxLen == 5

Procs == {1, 2}

(***************************************************************************)
(* float32_t values and arithmetic.                                        *)
(***************************************************************************)
RECURSIVE Pow2(_)
Pow2(n) == IF n = 0 THEN 1 ELSE 2 * Pow2(n - 1)

\* FLT_MAX in units
MaxFinite == (Pow2(Precision) - 1) * Pow2(Binades)
\* encodings of the three special values, outside the finite range
PInf == MaxFinite + 1
NInf == -PInf
NaN == PInf + 1
\* 1.0f
One == Pow2(FracBits)

IsNaN(x) == x = NaN
IsInf(x) == x = PInf \/ x = NInf
IsFinite(x) == x >= -MaxFinite /\ x <= MaxFinite

\* the binade of the magnitude a/den: the least j with a/den < 2^(Precision+j)
RECURSIVE ExpOf(_, _, _)
ExpOf(a, den, j) ==
    IF a < den * Pow2(Precision + j) THEN j ELSE ExpOf(a, den, j + 1)

\* the magnitude a/den (a >= 0, den > 0, in units) rounded to nearest, ties to
\* even, at Precision significant bits; beyond FLT_MAX it overflows to infinity
RoundMag(a, den) ==
    LET j == ExpOf(a, den, 0)
        d == den * Pow2(j)
        f == a \div d
        r == a % d
        up == (2 * r > d) \/ (2 * r = d /\ f % 2 = 1)
        m == (IF up THEN f + 1 ELSE f) * Pow2(j)
    IN  IF m > MaxFinite THEN PInf ELSE m

\* the rational num/den (den > 0), rounded to a float32_t
RoundRat(num, den) ==
    IF num >= 0 THEN RoundMag(num, den) ELSE -RoundMag(-num, den)

\* whether num/den is a finite float32_t as it stands (no rounding, no overflow)
Representable(num, den) ==
    /\ num % den = 0
    /\ IsFinite(num \div den)
    /\ RoundRat(num, den) = num \div den

fneg(x) == IF IsNaN(x) THEN NaN ELSE -x

fadd(a, b) ==
    IF IsNaN(a) \/ IsNaN(b) THEN NaN
    ELSE IF IsInf(a) THEN (IF b = -a THEN NaN ELSE a)
    ELSE IF IsInf(b) THEN b
    ELSE RoundRat(a + b, 1)

fsub(a, b) == fadd(a, fneg(b))

fmul(a, b) ==
    IF IsNaN(a) \/ IsNaN(b) THEN NaN
    ELSE IF IsInf(a) \/ IsInf(b)
         THEN (IF a = 0 \/ b = 0 THEN NaN
               ELSE IF (a > 0) = (b > 0) THEN PInf ELSE NInf)
    ELSE RoundRat(a * b, One)

fdiv(a, b) ==
    IF IsNaN(a) \/ IsNaN(b) THEN NaN
    ELSE IF IsInf(a)
         THEN (IF IsInf(b) THEN NaN
               ELSE IF (a > 0) = (b >= 0) THEN PInf ELSE NInf)
    ELSE IF IsInf(b) THEN 0
    ELSE IF b = 0
         THEN (IF a = 0 THEN NaN ELSE IF a > 0 THEN PInf ELSE NInf)
    ELSE IF b > 0 THEN RoundRat(a * One, b)
    ELSE RoundRat(-(a * One), -b)

\* (float32_t) of a uint32_t
ToFloat(n) == RoundRat(n * One, 1)

\* the IEEE exception conditions of one operation (inexact, overflow, invalid)
\* or a non-finite operand: the operation did not return the real-number result
AddInexact(a, b) == ~(IsFinite(a) /\ IsFinite(b) /\ Representable(a + b, 1))
SubInexact(a, b) == ~(IsFinite(a) /\ IsFinite(b) /\ Representable(a - b, 1))
MulInexact(a, b) == ~(IsFinite(a) /\ IsFinite(b) /\ Representable(a * b, One))
DivInexact(a, b) ==
    ~(IsFinite(a) /\ IsFinite(b) /\ b > 0 /\ Representable(a * One, b))
CastInexact(n) == ~Representable(n * One, 1)


(***************************************************************************)
(* State.  Every variable but mem and mem0 is a function of the call.      *)
(***************************************************************************)
VARIABLES
    mem,        \* memory: address -> float32_t cell
    mem0,       \* history: memory as it was when the calls were made
    pSrc,       \* argument: address of the input vector
    blockSize,  \* argument: length of the input vector
    pResult,    \* argument: address of the result slot
    unrolled,   \* build: TRUE when neither ARM_MATH_CM0_FAMILY nor _CM3_FAMILY
    after,      \* caller: the calls that return before this one is made
    pc,         \* position of the call in the function body
    blkCnt,     \* local: loop counter
    pInput,     \* local: read pointer
    sum,        \* local: accumulator of pass 1
    fSum,       \* local: accumulator of pass 2
    fMean,      \* local
    fValue,     \* local
    in,         \* locals in1..in4 of the unrolled build
    k,          \* position inside the body of an unrolled loop (0..4)
    reads,      \* history: the addresses the call has loaded from, in order
    writes,     \* history: the addresses the call has stored to, in order
    acc,        \* history: the value of the accumulator after each accumulation
    fpexc       \* history: some operation so far was not exact (cumulative flag)

args == <<pSrc, blockSize, pResult, unrolled, after>>
locals == <<blkCnt, pInput, sum, fSum, fMean, fValue, in, k>>
hist == <<reads, writes, acc, fpexc>>
vars == <<mem, mem0, args, pc, locals, hist>>

(***************************************************************************)
(* The pieces of the function body.                                        *)
(***************************************************************************)
\* faulty variants of the guard: `< 1u` and `<= 2u`
DegenerateStrict(n) == n < 1
DegenerateWide(n) == n <= 2
\* line 91: if (blockSize <= 1u)
Degenerate(n) == n <= 1

\* lines 101, 151: blkCnt = blockSize >> 2u
GroupCount(n) == n \div 4

\* faulty variant of the remainder: `% 0x2u`
TailCountHalf(n) == n % 2
\* lines 124, 170: blkCnt = blockSize % 0x4u
TailCount(n) == n % 4

\* faulty variant: the single-element loop stops one element short
FirstCountShort(u, n) == IF u THEN GroupCount(n) ELSE n - 1
\* lines 101/130 and 151/175: the counter a pass starts with
FirstCount(u, n) == IF u THEN GroupCount(n) ELSE n

\* faulty variant: the decrement is missing
DecStuck(c) == c
\* lines 119, 140, 167, 184: blkCnt-- (only ever executed with blkCnt > 0)
Dec(c) == c - 1

\* faulty variant: sum declared static, one cell for all calls
SumCellStatic(p) == 1
\* line 85: float32_t sum has automatic storage: each call has its own
SumCell(p) == p

\* faulty variant: the read pointer is not reset between the passes
RewindMissing(p) == pInput[p]
\* line 146: pInput = pSrc
Rewind(p) == pSrc[p]

\* faulty variant: the result is stored in place, over the input
StoreAddrInput(p) == pSrc[p]
\* lines 93, 188: the address a store through pResult goes to
StoreAddr(p) == pResult[p]

\* *pInput: the values a load from address a can return; a load outside the
\* memory the caller owns is undefined and may return anything
InVals == {0, One, MaxFinite, NaN}
LoadVals(a) == IF a \in DOMAIN mem THEN {mem[a]} ELSE InVals

\* line 144: sum / (float32_t) blockSize
MeanOf(s, n) == fdiv(s, ToFloat(n))

\* faulty variant: the mean is not subtracted
DeviationRaw(x, m) == x
\* lines 157, 180: *pInput++ - fMean
Deviation(x, m) == fsub(x, m)

\* lines 158, 181: fSum += fValue * fValue
SquareAcc(s, v) == fadd(s, fmul(v, v))

\* faulty variant: division by blockSize (the biased estimator)
DivisorBiased(n) == ToFloat(n)
\* line 188: fSum / (float32_t)(blockSize - 1.0f)
Divisor(n) == fsub(ToFloat(n), One)
Variance(s, n) == fdiv(s, Divisor(n))

(***************************************************************************)
(* Actions: one per statement of arm_var_f32, for call p.                  *)
(***************************************************************************)
\* lines 91-95: blockSize <= 1: *pResult = 0; return;
EarlyReturn(p) ==
    /\ pc[p] = "entry"
    /\ \A q \in after[p] : pc[q] = "done"
    /\ Degenerate(blockSize[p])
    /\ mem' = [mem EXCEPT ![StoreAddr(p)] = 0]
    /\ writes' = [writes EXCEPT ![p] = Append(@, StoreAddr(p))]
    /\ pc' = [pc EXCEPT ![p] = "done"]
    /\ UNCHANGED <<mem0, args, locals, reads, acc, fpexc>>

\* lines 91, 101/130: blockSize >= 2: set the counter of pass 1
Begin(p) ==
    /\ pc[p] = "entry"
    /\ \A q \in after[p] : pc[q] = "done"
    /\ ~Degenerate(blockSize[p])
    /\ blkCnt' = [blkCnt EXCEPT ![p] = FirstCount(unrolled[p], blockSize[p])]
    /\ pc' = [pc EXCEPT ![p] = IF unrolled[p] THEN "p1_group" ELSE "p1_tail"]
    /\ UNCHANGED <<mem, mem0, args, pInput, sum, fSum, fMean, fValue, in, k, hist>>

\* line 105: while (blkCnt > 0u), true
P1GroupEnter(p) ==
    /\ pc[p] = "p1_group"
    /\ blkCnt[p] > 0
    /\ k' = [k EXCEPT ![p] = 0]
    /\ pc' = [pc EXCEPT ![p] = "p1_load"]
    /\ UNCHANGED <<mem, mem0, args, blkCnt, pInput, sum, fSum, fMean, fValue, in, hist>>

\* lines 108-111: in1 = *pInput++; ... in4 = *pInput++;
P1Load(p) ==
    /\ pc[p] = "p1_load"
    /\ \E v \in LoadVals(pInput[p]) :
          in' = [in EXCEPT ![p][k[p] + 1] = v]
    /\ reads' = [reads EXCEPT ![p] = Append(@, pInput[p])]
    /\ pInput' = [pInput EXCEPT ![p] = @ + 1]
    /\ k' = [k EXCEPT ![p] = IF @ = 3 THEN 0 ELSE @ + 1]
    /\ pc' = [pc EXCEPT ![p] = IF k[p] = 3 THEN "p1_add" ELSE "p1_load"]
    /\ UNCHANGED <<mem, mem0, args, blkCnt, sum, fSum, fMean, fValue,
                   writes, acc, fpexc>>

\* lines 113-116: sum += in1; ... sum += in4;
P1Add(p) ==
    /\ pc[p] = "p1_add"
    /\ sum' = [sum EXCEPT ![SumCell(p)] = fadd(@, in[p][k[p] + 1])]
    /\ acc' = [acc EXCEPT ![p] = Append(@, sum'[SumCell(p)])]
    /\ fpexc' = [fpexc EXCEPT ![p] = @ \/ AddInexact(sum[SumCell(p)], in[p][k[p] + 1])]
    /\ k' = [k EXCEPT ![p] = IF @ = 3 THEN 0 ELSE @ + 1]
    /\ pc' = [pc EXCEPT ![p] = IF k[p] = 3 THEN "p1_gdec" ELSE "p1_add"]
    /\ UNCHANGED <<mem, mem0, args, blkCnt, pInput, fSum, fMean, fValue, in,
                   reads, writes>>

\* line 119: blkCnt--;
P1GroupDec(p) ==
    /\ pc[p] = "p1_gdec"
    /\ blkCnt' = [blkCnt EXCEPT ![p] = Dec(@)]
    /\ pc' = [pc EXCEPT ![p] = "p1_group"]
    /\ UNCHANGED <<mem, mem0, args, pInput, sum, fSum, fMean, fValue, in, k, hist>>

\* lines 105, 124: while (blkCnt > 0u), false; blkCnt = blockSize % 0x4u;
P1GroupExit(p) ==
    /\ pc[p] = "p1_group"
    /\ blkCnt[p] = 0
    /\ blkCnt' = [blkCnt EXCEPT ![p] = TailCount(blockSize[p])]
    /\ pc' = [pc EXCEPT ![p] = "p1_tail"]
    /\ UNCHANGED <<mem, mem0, args, pInput, sum, fSum, fMean, fValue, in, k, hist>>

\* lines 134-137: while (blkCnt > 0u), true; sum += *pInput++;
P1TailAdd(p) ==
    /\ pc[p] = "p1_tail"
    /\ blkCnt[p] > 0
    /\ \E v \in LoadVals(pInput[p]) :
          /\ sum' = [sum EXCEPT ![SumCell(p)] = fadd(@, v)]
          /\ fpexc' = [fpexc EXCEPT ![p] = @ \/ AddInexact(sum[SumCell(p)], v)]
    /\ acc' = [acc EXCEPT ![p] = Append(@, sum'[SumCell(p)])]
    /\ reads' = [reads EXCEPT ![p] = Append(@, pInput[p])]
    /\ pInput' = [pInput EXCEPT ![p] = @ + 1]
    /\ pc' = [pc EXCEPT ![p] = "p1_tdec"]
    /\ UNCHANGED <<mem, mem0, args, blkCnt, fSum, fMean, fValue, in, k, writes>>

\* line 140: blkCnt--;
P1TailDec(p) ==
    /\ pc[p] = "p1_tdec"
    /\ blkCnt' = [blkCnt EXCEPT ![p] = Dec(@)]
    /\ pc' = [pc EXCEPT ![p] = "p1_tail"]
    /\ UNCHANGED <<mem, mem0, args, pInput, sum, fSum, fMean, fValue, in, k, hist>>

\* lines 134, 144, 146, 151/175: while (blkCnt > 0u), false;
\* fMean = sum / (float32_t) blockSize; pInput = pSrc; set the counter of pass 2
P1Exit(p) ==
    /\ pc[p] = "p1_tail"
    /\ blkCnt[p] = 0
    /\ fMean' = [fMean EXCEPT ![p] = MeanOf(sum[SumCell(p)], blockSize[p])]
    /\ fpexc' = [fpexc EXCEPT ![p] = @ \/ CastInexact(blockSize[p])
                                       \/ DivInexact(sum[SumCell(p)], ToFloat(blockSize[p]))]
    /\ pInput' = [pInput EXCEPT ![p] = Rewind(p)]
    /\ blkCnt' = [blkCnt EXCEPT ![p] = FirstCount(unrolled[p], blockSize[p])]
    /\ pc' = [pc EXCEPT ![p] = IF unrolled[p] THEN "p2_group" ELSE "p2_tail"]
    /\ UNCHANGED <<mem, mem0, args, sum, fSum, fValue, in, k, reads, writes, acc>>

\* line 155: while (blkCnt > 0u), true
P2GroupEnter(p) ==
    /\ pc[p] = "p2_group"
    /\ blkCnt[p] > 0
    /\ k' = [k EXCEPT ![p] = 0]
    /\ pc' = [pc EXCEPT ![p] = "p2_sub"]
    /\ UNCHANGED <<mem, mem0, args, blkCnt, pInput, sum, fSum, fMean, fValue, in, hist>>

\* lines 157, 159, 161, 163: fValue = *pInput++ - fMean;
P2Sub(p) ==
    /\ pc[p] = "p2_sub"
    /\ \E v \in LoadVals(pInput[p]) :
          /\ fValue' = [fValue EXCEPT ![p] = Deviation(v, fMean[p])]
          /\ fpexc' = [fpexc EXCEPT ![p] = @ \/ SubInexact(v, fMean[p])]
    /\ reads' = [reads EXCEPT ![p] = Append(@, pInput[p])]
    /\ pInput' = [pInput EXCEPT ![p] = @ + 1]
    /\ pc' = [pc EXCEPT ![p] = "p2_acc"]
    /\ UNCHANGED <<mem, mem0, args, blkCnt, sum, fSum, fMean, in, k, writes, acc>>

\* lines 158, 160, 162, 164: fSum += fValue * fValue;
P2Acc(p) ==
    /\ pc[p] = "p2_acc"
    /\ fSum' = [fSum EXCEPT ![p] = SquareAcc(@, fValue[p])]
    /\ acc' = [acc EXCEPT ![p] = Append(@, fSum'[p])]
    /\ fpexc' = [fpexc EXCEPT ![p] = @ \/ MulInexact(fValue[p], fValue[p])
                        \/ AddInexact(fSum[p], fmul(fValue[p], fValue[p]))]
    /\ k' = [k EXCEPT ![p] = IF @ = 3 THEN 0 ELSE @ + 1]
    /\ pc' = [pc EXCEPT ![p] = IF k[p] = 3 THEN "p2_gdec" ELSE "p2_sub"]
    /\ UNCHANGED <<mem, mem0, args, blkCnt, pInput, sum, fMean, fValue, in,
                   reads, writes>>

\* line 167: blkCnt--;
P2GroupDec(p) ==
    /\ pc[p] = "p2_gdec"
    /\ blkCnt' = [blkCnt EXCEPT ![p] = Dec(@)]
    /\ pc' = [pc EXCEPT ![p] = "p2_group"]
    /\ UNCHANGED <<mem, mem0, args, pInput, sum, fSum, fMean, fValue, in, k, hist>>

\* lines 155, 170: while (blkCnt > 0u), false; blkCnt = blockSize % 0x4u;
P2GroupExit(p) ==
    /\ pc[p] = "p2_group"
    /\ blkCnt[p] = 0
    /\ blkCnt' = [blkCnt EXCEPT ![p] = TailCount(blockSize[p])]
    /\ pc' = [pc EXCEPT ![p] = "p2_tail"]
    /\ UNCHANGED <<mem, mem0, args, pInput, sum, fSum, fMean, fValue, in, k, hist>>

\* lines 178-180: while (blkCnt > 0u), true; fValue = *pInput++ - fMean;
P2TailSub(p) ==
    /\ pc[p] = "p2_tail"
    /\ blkCnt[p] > 0
    /\ \E v \in LoadVals(pInput[p]) :
          /\ fValue' = [fValue EXCEPT ![p] = Deviation(v, fMean[p])]
          /\ fpexc' = [fpexc EXCEPT ![p] = @ \/ SubInexact(v, fMean[p])]
    /\ reads' = [reads EXCEPT ![p] = Append(@, pInput[p])]
    /\ pInput' = [pInput EXCEPT ![p] = @ + 1]
    /\ pc' = [pc EXCEPT ![p] = "p2_tacc"]
    /\ UNCHANGED <<mem, mem0, args, blkCnt, sum, fSum, fMean, in, k, writes, acc>>

\* line 181: fSum += fValue * fValue;
P2TailAcc(p) ==
    /\ pc[p] = "p2_tacc"
    /\ fSum' = [fSum EXCEPT ![p] = SquareAcc(@, fValue[p])]
    /\ acc' = [acc EXCEPT ![p] = Append(@, fSum'[p])]
    /\ fpexc' = [fpexc EXCEPT ![p] = @ \/ MulInexact(fValue[p], fValue[p])
                        \/ AddInexact(fSum[p], fmul(fValue[p], fValue[p]))]
    /\ pc' = [pc EXCEPT ![p] = "p2_tdec"]
    /\ UNCHANGED <<mem, mem0, args, blkCnt, pInput, sum, fMean, fValue, in, k,
                   reads, writes>>

\* line 184: blkCnt--;
P2TailDec(p) ==
    /\ pc[p] = "p2_tdec"
    /\ blkCnt' = [blkCnt EXCEPT ![p] = Dec(@)]
    /\ pc' = [pc EXCEPT ![p] = "p2_tail"]
    /\ UNCHANGED <<mem, mem0, args, pInput, sum, fSum, fMean, fValue, in, k, hist>>

\* lines 178, 188: while (blkCnt > 0u), false;
\* *pResult = fSum / (float32_t)(blockSize - 1.0f);
Finalize(p) ==
    /\ pc[p] = "p2_tail"
    /\ blkCnt[p] = 0
    /\ mem' = [mem EXCEPT ![StoreAddr(p)] = Variance(fSum[p], blockSize[p])]
    /\ writes' = [writes EXCEPT ![p] = Append(@, StoreAddr(p))]
    /\ fpexc' = [fpexc EXCEPT ![p] = @ \/ CastInexact(blockSize[p])
                        \/ SubInexact(ToFloat(blockSize[p]), One)
                        \/ DivInexact(fSum[p], Divisor(blockSize[p]))]
    /\ pc' = [pc EXCEPT ![p] = "done"]
    /\ UNCHANGED <<mem0, args, locals, reads, acc>>

Step(p) ==
    \/ EarlyReturn(p) \/ Begin(p)
    \/ P1GroupEnter(p) \/ P1Load(p) \/ P1Add(p) \/ P1GroupDec(p) \/ P1GroupExit(p)
    \/ P1TailAdd(p) \/ P1TailDec(p) \/ P1Exit(p)
    \/ P2GroupEnter(p) \/ P2Sub(p) \/ P2Acc(p) \/ P2GroupDec(p) \/ P2GroupExit(p)
    \/ P2TailSub(p) \/ P2TailAcc(p) \/ P2TailDec(p)
    \/ Finalize(p)

Next == \E p \in Procs : Step(p)

(***************************************************************************)
(* Callers.  Call p owns the MaxLen cells from Base(p) and the result slot *)
(* behind them; the regions of the two calls are disjoint.                 *)
(***************************************************************************)
Base(p) == (p - 1) * (MaxLen + 1)
Slot(p) == Base(p) + MaxLen
Addrs == 0 .. (2 * (MaxLen + 1) - 1)
Vectors(V) == [0 .. (MaxLen - 1) -> V]

\* memory holding vector x for call 1 and vector y for call 2; a result slot
\* holds NaN until the kernel stores to it
Layout(x, y) ==
    [a \in Addrs |->
        IF a = Slot(1) \/ a = Slot(2) THEN NaN
        ELSE IF a < Slot(1) THEN x[a - Base(1)] ELSE y[a - Base(2)]]

\* lines 77-89: the state on entry of the calls in `active`; sum and fSum are
\* initialised to 0.0f and pInput to pSrc, the other locals are not yet
\* assigned (they are assigned before they are read) and hold 0 or NaN here
Entry(m, n, u, aft, active) ==
    /\ mem = m
    /\ mem0 = m
    /\ pSrc = [p \in Procs |-> Base(p)]
    /\ pResult = [p \in Procs |-> Slot(p)]
    /\ blockSize = n
    /\ unrolled = u
    /\ after = aft
    /\ pc = [p \in Procs |-> IF p \in active THEN "entry" ELSE "idle"]
    /\ blkCnt = [p \in Procs |-> 0]
    /\ pInput = [p \in Procs |-> Base(p)]
    /\ sum = [p \in Procs |-> 0]
    /\ fSum = [p \in Procs |-> 0]
    /\ fMean = [p \in Procs |-> NaN]
    /\ fValue = [p \in Procs |-> NaN]
    /\ in = [p \in Procs |-> <<NaN, NaN, NaN, NaN>>]
    /\ k = [p \in Procs |-> 0]
    /\ reads = [p \in Procs |-> <<>>]
    /\ writes = [p \in Procs |-> <<>>]
    /\ acc = [p \in Procs |-> <<>>]
    /\ fpexc = [p \in Procs |-> FALSE]

Zeros == [i \in 0 .. (MaxLen - 1) |-> 0]

\* one call, on any buffer over InVals, with any blockSize the buffer holds,
\* in either build
Init ==
    \E x \in Vectors(InVals), n \in 0 .. MaxLen, u \in BOOLEAN :
        Entry(Layout(x, Zeros), [p \in Procs |-> IF p = 1 THEN n ELSE 0],
              [p \in Procs |-> u], [p \in Procs |-> {}], {1})

Spec == Init /\ [][Next]_vars

\* one call on a few buffers, with the processor executing it to the end: no
\* statement of the function waits
LiveVectors ==
    { [i \in 0 .. (MaxLen - 1) |-> IF i % 2 = 0 THEN One ELSE 0],
      [i \in 0 .. (MaxLen - 1) |-> IF i = 1 THEN NaN ELSE MaxFinite] }
InitLive ==
    \E x \in LiveVectors, n \in 0 .. MaxLen, u \in BOOLEAN :
        Entry(Layout(x, Zeros), [p \in Procs |-> IF p = 1 THEN n ELSE 0],
              [p \in Procs |-> u], [p \in Procs |-> {}], {1})

SpecLive == InitLive /\ [][Next]_vars /\ WF_vars(Next)

\* the same vector and blockSize given to the unrolled build (call 1) and then
\* to the single-element build (call 2)
PathVals == {0, One, MaxFinite}
InitPaths ==
    \E x \in Vectors(PathVals), n \in 0 .. MaxLen :
        Entry(Layout(x, x), [p \in Procs |-> n],
              [p \in Procs |-> p = 1], [p \in Procs |-> IF p = 2 THEN {1} ELSE {}],
              Procs)

SpecPaths == InitPaths /\ [][Next]_vars

\* a vector (call 1) and the same vector with c added to every element by the
\* caller (call 2), one call after the other in the same build
ShiftVals == {0, One, MaxFinite}
Shifts == {One, -MaxFinite}
InitShift ==
    \E x \in Vectors(ShiftVals), c \in Shifts, n \in 0 .. MaxLen, u \in BOOLEAN :
        Entry(Layout(x, [i \in 0 .. (MaxLen - 1) |-> fadd(x[i], c)]),
              [p \in Procs |-> n], [p \in Procs |-> u],
              [p \in Procs |-> IF p = 2 THEN {1} ELSE {}], Procs)

SpecShift == InitShift /\ [][Next]_vars

\* two calls of the same build running concurrently on disjoint regions
ConcVectors == LiveVectors
InitConc ==
    \E x \in ConcVectors, y \in ConcVectors, n1 \in 0 .. MaxLen,
       n2 \in 0 .. MaxLen, u \in BOOLEAN :
        Entry(Layout(x, y), [p \in Procs |-> IF p = 1 THEN n1 ELSE n2],
              [p \in Procs |-> u], [p \in Procs |-> {}], Procs)

SpecConc == InitConc /\ [][Next]_vars

(***************************************************************************)
(* Vocabulary of the properties.                                           *)
(***************************************************************************)
Done(p) == pc[p] = "done"
Active(p) == pc[p] # "idle"
\* the value in the result slot of call p
Result(p) == mem[pResult[p]]
\* element i of the input vector of call p, as the caller passed it
Elem(p, i) == mem0[pSrc[p] + i]
Indices(p) == 0 .. (blockSize[p] - 1)
AllFinite(p) == \A i \in Indices(p) : IsFinite(Elem(p, i))
\* the offsets 0, 1, ..., n-1, twice: the reads of the two passes
TwoScans(n) == [j \in 1 .. (2 * n) |-> (j - 1) % n]
IsPrefix(s, t) == Len(s) <= Len(t) /\ \A j \in 1 .. Len(s) : s[j] = t[j]
Offsets(p) == [j \in 1 .. Len(reads[p]) |-> reads[p][j] - pSrc[p]]

\* the two-pass formula evaluated in float32_t, every operation rounded, the
\* elements taken left to right
RECURSIVE RoundedSum(_, _)
RoundedSum(p, i) ==
    IF i = 0 THEN 0 ELSE fadd(RoundedSum(p, i - 1), Elem(p, i - 1))
RECURSIVE RoundedSquares(_, _, _)
RoundedSquares(p, m, i) ==
    IF i = 0 THEN 0
    ELSE fadd(RoundedSquares(p, m, i - 1),
              fmul(fsub(Elem(p, i - 1), m), fsub(Elem(p, i - 1), m)))
RoundedVariance(p) ==
    LET n == blockSize[p]
        m == fdiv(RoundedSum(p, n), ToFloat(n))
    IN  fdiv(RoundedSquares(p, m, n), fsub(ToFloat(n), One))
\* what the call stores when nothing else runs
AloneResult(p) == IF blockSize[p] <= 1 THEN 0 ELSE RoundedVariance(p)

\* the formula over the reals, in integers: with s the sum of the x_i in units,
\* r units is the variance iff  r * One * n^2 * (n-1) = sum of (n*x_i - s)^2
RECURSIVE RealSum(_, _)
RealSum(p, i) == IF i = 0 THEN 0 ELSE RealSum(p, i - 1) + Elem(p, i - 1)
RECURSIVE SquaredDeviations(_, _, _)
SquaredDeviations(p, s, i) ==
    IF i = 0 THEN 0
    ELSE SquaredDeviations(p, s, i - 1)
         + (blockSize[p] * Elem(p, i - 1) - s) * (blockSize[p] * Elem(p, i - 1) - s)
IsRealVariance(p, r) ==
    LET n == blockSize[p]
    IN  /\ IsFinite(r)
        /\ r * One * n * n * (n - 1) = SquaredDeviations(p, RealSum(p, n), n)

(***************************************************************************)
(* C1                                                                      *)
(***************************************************************************)
\* C1 as claimed: for every (finite) input vector and blockSize >= 2 the result
\* is the real-number unbiased sample variance.
C1_ExactVariance ==
    \A p \in Procs :
        (Done(p) /\ blockSize[p] >= 2 /\ AllFinite(p)) => IsRealVariance(p, Result(p))

\* C1 as amended: for blockSize >= 2 the result is the two-pass formula
\* evaluated in float32 arithmetic, every operation rounded and the elements
\* accumulated left to right; it is the real-number unbiased sample variance
\* (for blockSize == 2: (a-b)^2/2) whenever no operation of the call rounded,
\* overflowed or met a NaN or an infinity.
C1_RoundedVariance ==
    \A p \in Procs :
        (Done(p) /\ blockSize[p] >= 2) =>
            /\ Result(p) = RoundedVariance(p)
            /\ ~fpexc[p] => IsRealVariance(p, Result(p))
            /\ (~fpexc[p] /\ blockSize[p] = 2) =>
                  Result(p) * One * 2
                      = (Elem(p, 0) - Elem(p, 1)) * (Elem(p, 0) - Elem(p, 1))

\* a call on two different elements has returned their variance without any
\* operation rounding
C1_Witness ==
    /\ Done(1) /\ blockSize[1] = 2 /\ ~fpexc[1]
    /\ Elem(1, 0) # Elem(1, 1) /\ Result(1) > 0

(***************************************************************************)
(* C2                                                                      *)
(***************************************************************************)
\* C2: for blockSize 0 and 1 the call stores exactly 0 whatever the buffer
\* holds, returns at once and raises no floating-point exception.
C2_DegenerateZero ==
    \A p \in Procs :
        /\ (Done(p) /\ blockSize[p] <= 1) =>
              (Result(p) = 0 /\ ~fpexc[p] /\ reads[p] = <<>>)
        /\ (pc[p] = "entry" /\ blockSize[p] <= 1 /\ after[p] = {}) =>
              ENABLED EarlyReturn(p)

\* a call with blockSize 1 on a buffer whose first element is NaN has returned
C2_Witness ==
    Done(1) /\ blockSize[1] = 1 /\ IsNaN(Elem(1, 0)) /\ Result(1) = 0

(***************************************************************************)
(* C3                                                                      *)
(***************************************************************************)
\* C3 as claimed: for any blockSize, a NaN among the input elements makes the
\* result NaN.
C3_NaNAnySize ==
    \A p \in Procs :
        (Done(p) /\ \E i \in Indices(p) : IsNaN(Elem(p, i))) => IsNaN(Result(p))

\* C3 as amended: for blockSize >= 2, a NaN among the first blockSize input
\* elements makes the result NaN (for blockSize <= 1 the result is 0).
C3_NaNPropagates ==
    \A p \in Procs :
        (Done(p) /\ blockSize[p] >= 2 /\ \E i \in Indices(p) : IsNaN(Elem(p, i)))
            => IsNaN(Result(p))

\* a call whose only NaN is its last element has returned NaN
C3_Witness ==
    /\ Done(1) /\ blockSize[1] >= 2 /\ IsNaN(Result(1))
    /\ \A i \in Indices(1) : IsNaN(Elem(1, i)) <=> i = blockSize[1] - 1

(***************************************************************************)
(* C4                                                                      *)
(***************************************************************************)
\* C4: on the same vector and blockSize the unrolled build (call 1) and the
\* single-element build (call 2) read the same elements in the same order,
\* their accumulators take the same values after each element, and they
\* store the same result.
C4_PathsAgree ==
    /\ IsPrefix(acc[2], acc[1]) \/ IsPrefix(acc[1], acc[2])
    /\ IsPrefix(Offsets(2), Offsets(1)) \/ IsPrefix(Offsets(1), Offsets(2))
    /\ (Done(1) /\ Done(2)) =>
          /\ acc[1] = acc[2]
          /\ Offsets(1) = Offsets(2)
          /\ Result(1) = Result(2)

\* both builds have finished a vector with a group of four and a remainder
C4_Witness ==
    /\ Done(1) /\ Done(2) /\ unrolled[1] /\ ~unrolled[2]
    /\ blockSize[1] >= 5 /\ blockSize[1] % 4 # 0
    /\ IsFinite(Result(1)) /\ Result(1) > 0

(***************************************************************************)
(* C5                                                                      *)
(***************************************************************************)
\* everything a call owns besides memory
Private(p) ==
    <<pc[p], blkCnt[p], pInput[p], sum[p], fSum[p], fMean[p], fValue[p], in[p],
      k[p], reads[p], writes[p], acc[p], fpexc[p]>>
Owned(p) == Base(p) .. Slot(p)
Footprint(p) ==
    /\ \A j \in 1 .. Len(reads[p]) : reads[p][j] \in Owned(p) \ {pResult[p]}
    /\ \A j \in 1 .. Len(writes[p]) : writes[p][j] = pResult[p]

\* C5: of two calls running concurrently on disjoint regions, each stores the
\* result it stores when run alone, each loads and stores only inside its own
\* region, and no step changes a local or a memory cell of both calls or of
\* the call that did not take it.
C5_Isolation ==
    /\ [](\A p \in Procs : Footprint(p) /\ (Done(p) => Result(p) = AloneResult(p)))
    /\ [][\A p \in Procs : \A q \in Procs \ {p} :
            Private(p)' # Private(p) =>
                /\ Private(q)' = Private(q)
                /\ \A a \in Owned(q) : mem'[a] = mem[a]]_vars

\* call 2 has stored a variance while call 1 is in the middle of its second
\* pass
C5_Witness ==
    /\ pc[1] = "p2_tacc" /\ blockSize[1] >= 5 /\ Len(reads[1]) > blockSize[1] + 1
    /\ Done(2) /\ blockSize[2] >= 2 /\ IsFinite(Result(2)) /\ Result(2) > 0

(***************************************************************************)
(* C6                                                                      *)
(***************************************************************************)
\* C6: at every step of a call every cell but the result slot holds what it
\* held when the call was made, and every store of the call went to the
\* result slot.
C6_InputUnchanged ==
    \A p \in Procs :
        /\ \A a \in Addrs \ {pResult[q] : q \in Procs} : mem[a] = mem0[a]
        /\ \A j \in 1 .. Len(writes[p]) : writes[p][j] = pResult[p]

\* a call has stored a variance that differs from its first input element
C6_Witness ==
    /\ Done(1) /\ blockSize[1] >= 2 /\ writes[1] # <<>>
    /\ Result(1) # Elem(1, 0) /\ IsFinite(Result(1))

(***************************************************************************)
(* C7                                                                      *)
(***************************************************************************)
\* C7: the result slot is stored to exactly once per call, by the step that
\* ends the call: before it the slot holds what the caller left there, and
\* for blockSize >= 2 all 2*blockSize loads precede it (none for
\* blockSize <= 1).
C7_WrittenOnce ==
    \A p \in Procs :
        /\ Len(writes[p]) = (IF Done(p) THEN 1 ELSE 0)
        /\ ~Done(p) => Result(p) = mem0[pResult[p]]
        /\ Done(p) =>
              Len(reads[p]) = (IF blockSize[p] <= 1 THEN 0 ELSE 2 * blockSize[p])

\* a call on five or more elements has returned, having stored once after
\* all its loads
C7_Witness ==
    /\ Done(1) /\ blockSize[1] >= 5 /\ Len(writes[1]) = 1
    /\ Len(reads[1]) = 2 * blockSize[1] /\ ~IsNaN(Result(1))

(***************************************************************************)
(* C8                                                                      *)
(***************************************************************************)
\* the caller's x_i + c are the real-number sums
ShiftExact ==
    \A i \in Indices(1) :
        IsFinite(Elem(1, i)) /\ IsFinite(Elem(2, i)) /\ IsFinite(Elem(2, 0) - Elem(1, 0))
        /\ Elem(2, i) - Elem(1, i) = Elem(2, 0) - Elem(1, 0)

\* C8 as claimed: the result on {x_i + c} (call 2) equals the result on {x_i}
\* (call 1).
C8_ShiftInvariant ==
    (Done(1) /\ Done(2) /\ ShiftExact) => Result(1) = Result(2)

\* C8 as amended: the result on {x_i + c} equals the result on {x_i} whenever
\* no operation of either call rounded, overflowed or met a NaN or an
\* infinity.
C8_ShiftInvariantExact ==
    (Done(1) /\ Done(2) /\ ShiftExact /\ ~fpexc[1] /\ ~fpexc[2])
        => Result(1) = Result(2)

\* both calls ran without rounding on shifted vectors that are not constant
C8_Witness ==
    /\ Done(1) /\ Done(2) /\ ShiftExact /\ ~fpexc[1] /\ ~fpexc[2]
    /\ blockSize[1] >= 2 /\ Elem(1, 0) # Elem(2, 0) /\ Result(1) > 0

(***************************************************************************)
(* C9                                                                      *)
(***************************************************************************)
Decrements == {"p1_gdec", "p1_tdec", "p2_gdec", "p2_tdec"}

\* C9: every call that is made returns with the result stored; every
\* decrement strictly decreases the loop counter and never takes it below 0,
\* and every loop is entered with a counter of at most blockSize.
C9_Terminates ==
    /\ \A p \in Procs : Active(p) ~> (Done(p) /\ Len(writes[p]) = 1)
    /\ [](\A p \in Procs : blkCnt[p] >= 0 /\ blkCnt[p] <= blockSize[p])
    /\ [][\A p \in Procs :
            (pc[p] \in Decrements /\ pc'[p] # pc[p]) =>
                (blkCnt'[p] < blkCnt[p] /\ blkCnt'[p] >= 0)]_vars

\* an unrolled call has gone through all four loops and returned
C9_Witness ==
    Done(1) /\ unrolled[1] /\ blockSize[1] >= 5 /\ blockSize[1] % 4 # 0

(***************************************************************************)
(* C10                                                                     *)
(***************************************************************************)
\* C10: in both builds the loads of a call are, in order, the offsets
\* 0..blockSize-1 of pass 1 followed by the offsets 0..blockSize-1 of pass 2:
\* all of them once the call is done with blockSize >= 2, none at all for
\* blockSize <= 1, and never an offset >= blockSize.
C10_ReadsInOrder ==
    \A p \in Procs :
        /\ IsPrefix(Offsets(p), TwoScans(blockSize[p]))
        /\ (Done(p) /\ blockSize[p] >= 2) => Offsets(p) = TwoScans(blockSize[p])
        /\ blockSize[p] <= 1 => reads[p] = <<>>
        /\ Active(p) /\ ~Done(p) /\ pc[p] \in {"p1_group", "p1_load", "p1_add",
                                    "p1_gdec", "p1_tail", "p1_tdec"}
             => Len(reads[p]) <= blockSize[p]

\* an unrolled call has read a group of four and a remainder in each pass
C10_Witness ==
    /\ Done(1) /\ unrolled[1] /\ blockSize[1] >= 5 /\ blockSize[1] % 4 # 0
    /\ Offsets(1) = TwoScans(blockSize[1])

=============================================================================
